---- MODULE Spec2Model ----
(***************************************************************************)
(* ClusterAndReducer (lib/sequence_error.py): UMI error-correction         *)
(* clustering of one bundle of reads.  One behaviour of this module is one *)
(* call of ClusterAndReducer.__call__ on one bundle, for an instance that  *)
(* was constructed with cluster_method "directional" or "kmeans".          *)
(*                                                                         *)
(* A barcode is a sequence of letters.  bundle maps a barcode to the list  *)
(* of reads filed under it; a read handle is the pair <<barcode, k>>.      *)
(* Python leaves the iteration order of dict keys and of sets open, so     *)
(* every place where the code depends on it (the order of equal keys in    *)
(* sorted(), list(queue)[0], "for umi in umis") is a choice with \E.       *)
(* The returned list is kept as a bag: its order is never used.            *)
(***************************************************************************)
EXTENDS Integers, Sequences, FiniteSets, Bags, TLC

VARIABLES
    cluster_method,   \* policy selected by __init__
    bundle,           \* argument of __call__
    threshold,        \* argument of __call__
    pc,               \* position inside __call__
    err,              \* the exception __call__ raised, if any
    umis,             \* bundle.keys()
    counts,           \* {umi: len(bundle[umi])}
    adj_list,         \* result of get_adj_list
    todo,             \* get_connected_components: nodes of the sorted loop not yet visited
    found,            \* get_connected_components: found
    components,       \* get_connected_components: components
    bfs,              \* breadth_first_search: searched, found, queue
    clusters,         \* __call__: clusters
    pp_todo,          \* _post_process_components_directional_: umis not yet visited
    new_components,   \* _post_process_components_kmeans_: new_components
    idx,              \* index of the cluster the current "for cluster in ..." loop is at
    parents,          \* reduce_clusters: parent_umi chosen for each cluster seen
    reads,            \* reduce_clusters: reads
    result            \* value returned by __call__

vars == <<cluster_method, bundle, threshold, pc, err, umis, counts, adj_list,
          todo, found, components, bfs, clusters, pp_todo, new_components,
          idx, parents, reads, result>>

(***************************************************************************)
(* Bounds of the model                                                     *)
(***************************************************************************)
MaxUmis == 4          \* distinct barcodes in a bundle
MaxCount == 3         \* reads filed under one barcode
MaxThreshold == 2     \* threshold argument ranges over 0..MaxThreshold
Alphabet == {"A", "T"}
UmiLengths == {1, 2}  \* two lengths, so that a bundle can mix them

Barcodes == UNION {[1..n -> Alphabet] : n \in UmiLengths}

(***************************************************************************)
(* Python primitives                                                       *)
(***************************************************************************)
\* code point of a letter
Ord(c) == CASE c = "A" -> 65 [] c = "T" -> 84

\* str.encode('utf-8') of an ASCII string: its bytes
encode(umi) == [i \in 1..Len(umi) |-> Ord(umi[i])]

\* str < str: lexicographic by code point, a proper prefix is smaller
StrLess(a, b) ==
    \/ \E i \in 1..Len(a) :
          /\ i <= Len(b)
          /\ \A j \in 1..(i-1) : a[j] = b[j]
          /\ Ord(a[i]) < Ord(b[i])
    \/ /\ Len(a) < Len(b)
       /\ \A j \in 1..Len(a) : a[j] = b[j]

\* max() of a non-empty list of strings
StrMax(seq) ==
    CHOOSE m \in {seq[i] : i \in 1..Len(seq)} :
        \A i \in 1..Len(seq) : ~StrLess(m, seq[i])

\* list.index(x): position of the first element equal to x
IndexOf(seq, x) ==
    CHOOSE k \in 1..Len(seq) : seq[k] = x /\ \A j \in 1..(k-1) : seq[j] # x

SetMax(S) == CHOOSE m \in S : \A x \in S : x <= m
SetMin(S) == CHOOSE m \in S : \A x \in S : m <= x

\* kmeans.hamming: number of positions at which two equal-length byte
\* strings differ
hamming(a, b) == Cardinality({i \in 1..Len(a) : a[i] # b[i]})

NoUmi == <<>>
NoErr == [type |-> "none", args |-> <<>>]
NoBfs == [searched |-> {}, found |-> {}, queue |-> {}]

(***************************************************************************)
(* Initial states: an instance of either policy, about to be called on any *)
(* bundle of at most MaxUmis barcodes with 1..MaxCount reads each (the     *)
(* empty bundle included) and any threshold in 0..MaxThreshold.            *)
(***************************************************************************)
ReadList(umi, n) == [k \in 1..n |-> <<umi, k>>]

Init ==
    /\ cluster_method \in {"directional", "kmeans"}
    /\ threshold \in 0..MaxThreshold
    /\ \E S \in SUBSET Barcodes :
          /\ Cardinality(S) <= MaxUmis
          /\ \E c \in [S -> 1..MaxCount] :
                bundle = [u \in S |-> ReadList(u, c[u])]
    /\ pc = "call"
    /\ err = NoErr
    /\ umis = {}
    /\ counts = <<>>
    /\ adj_list = <<>>
    /\ todo = {}
    /\ found = {}
    /\ components = <<>>
    /\ bfs = NoBfs
    /\ clusters = <<>>
    /\ pp_todo = {}
    /\ new_components = <<>>
    /\ idx = 0
    /\ parents = <<>>
    /\ reads = EmptyBag
    /\ result = EmptyBag

(***************************************************************************)
(* __call__, lines 154-159: keys and the length assertion                  *)
(***************************************************************************)
\* the asserted condition
SameLength(len_umis) == SetMax(len_umis) = SetMin(len_umis)

\* variant of AssertArgs: the two lengths in the other order
AssertArgs_swapped(len_umis) == <<SetMax(len_umis), SetMin(len_umis)>>

\* the values formatted into the assertion message
AssertArgs(len_umis) == <<SetMin(len_umis), SetMax(len_umis)>>

Call ==
    /\ pc = "call"
    /\ umis' = DOMAIN bundle
    /\ LET len_umis == {Len(x) : x \in DOMAIN bundle} IN
          IF len_umis = {}
          THEN \* max() of an empty list
               /\ pc' = "raised"
               /\ err' = [type |-> "ValueError", args |-> <<>>]
          ELSE IF SameLength(len_umis)
          THEN /\ pc' = "counts"
               /\ err' = err
          ELSE /\ pc' = "raised"
               /\ err' = [type |-> "AssertionError", args |-> AssertArgs(len_umis)]
    /\ UNCHANGED <<cluster_method, bundle, threshold, counts, adj_list, todo,
                   found, components, bfs, clusters, pp_todo, new_components,
                   idx, parents, reads, result>>

(***************************************************************************)
(* __call__, line 161: counts                                              *)
(***************************************************************************)
Counts ==
    /\ pc = "counts"
    /\ counts' = [umi \in umis |-> Len(bundle[umi])]
    /\ pc' = "adj"
    /\ UNCHANGED <<cluster_method, bundle, threshold, err, umis, adj_list,
                   todo, found, components, bfs, clusters, pp_todo,
                   new_components, idx, parents, reads, result>>

(***************************************************************************)
(* get_adj_list, lines 44-59.  The lists hold no barcode twice (umis are   *)
(* dict keys), so a list of neighbours is kept as a set.                   *)
(***************************************************************************)
\* variant of get_adj_list_directional: the strict comparison its docstring
\* words
get_adj_list_directional_strict(us, cnt, thr) ==
    [umi \in us |->
        {umi2 \in us : /\ hamming(encode(umi), encode(umi2)) = thr
                       /\ cnt[umi] > (cnt[umi2] * 2) - 1}]

get_adj_list_directional(us, cnt, thr) ==
    [umi \in us |->
        {umi2 \in us : /\ hamming(encode(umi), encode(umi2)) = thr
                       /\ cnt[umi] >= (cnt[umi2] * 2) - 1}]

\* variant of get_adj_list_kmeans: every barcode within the threshold
get_adj_list_kmeans_within(us, cnt, thr) ==
    [umi \in us |->
        {umi2 \in us : hamming(encode(umi), encode(umi2)) <= thr}]

get_adj_list_kmeans(us, cnt, thr) ==
    [umi \in us |->
        {umi2 \in us : hamming(encode(umi), encode(umi2)) = thr}]

GetAdjList ==
    /\ pc = "adj"
    /\ adj_list' = IF cluster_method = "directional"
                   THEN get_adj_list_directional(umis, counts, threshold)
                   ELSE get_adj_list_kmeans(umis, counts, threshold)
    /\ pc' = "components"
    /\ UNCHANGED <<cluster_method, bundle, threshold, err, umis, counts,
                   todo, found, components, bfs, clusters, pp_todo,
                   new_components, idx, parents, reads, result>>

(***************************************************************************)
(* get_connected_components, lines 103-115, and breadth_first_search,      *)
(* lines 24-38.  sorted(..., reverse=True) is stable over an open key      *)
(* order: the next node is any unvisited node of the highest count.        *)
(***************************************************************************)
\* the nodes that can come next in the sorted order
NextSorted(nodes, cnt) == {n \in nodes : \A m \in nodes : cnt[n] >= cnt[m]}

\* variant of IsSeed: the test of line 110 left out
IsSeed_always(node, fnd) == TRUE

\* line 110: the node seeds a traversal
IsSeed(node, fnd) == node \notin fnd

ComponentsBegin ==
    /\ pc = "components"
    /\ found' = {}
    /\ components' = <<>>
    /\ todo' = DOMAIN adj_list
    /\ pc' = "gcc_loop"
    /\ UNCHANGED <<cluster_method, bundle, threshold, err, umis, counts,
                   adj_list, bfs, clusters, pp_todo, new_components, idx,
                   parents, reads, result>>

\* one iteration of the loop of line 109 up to the call of line 111
ComponentsNext ==
    /\ pc = "gcc_loop"
    /\ todo # {}
    /\ \E node \in NextSorted(todo, counts) :
          /\ todo' = todo \ {node}
          /\ IF IsSeed(node, found)
             THEN /\ bfs' = [searched |-> {}, found |-> {node}, queue |-> {node}]
                  /\ pc' = "bfs"
             ELSE /\ bfs' = bfs
                  /\ pc' = pc
    /\ UNCHANGED <<cluster_method, bundle, threshold, err, umis, counts,
                   adj_list, found, components, clusters, pp_todo,
                   new_components, idx, parents, reads, result>>

\* one iteration of the while loop of lines 31-36
bfs_step(b, node, graph) ==
    LET searched == b.searched \cup {node} IN
    [searched |-> searched,
     found    |-> b.found \cup graph[node],
     queue    |-> (b.queue \cup graph[node]) \ searched]

BfsStep ==
    /\ pc = "bfs"
    /\ bfs.queue # {}
    /\ \E node \in bfs.queue : bfs' = bfs_step(bfs, node, adj_list)
    /\ UNCHANGED <<cluster_method, bundle, threshold, pc, err, umis, counts,
                   adj_list, todo, found, components, clusters, pp_todo,
                   new_components, idx, parents, reads, result>>

\* line 38 and lines 112-113
BfsReturn ==
    /\ pc = "bfs"
    /\ bfs.queue = {}
    /\ found' = found \cup bfs.found
    /\ components' = Append(components, bfs.found)
    /\ bfs' = NoBfs
    /\ pc' = "gcc_loop"
    /\ UNCHANGED <<cluster_method, bundle, threshold, err, umis, counts,
                   adj_list, todo, clusters, pp_todo, new_components, idx,
                   parents, reads, result>>

\* line 115 and the assignment of line 164
ComponentsReturn ==
    /\ pc = "gcc_loop"
    /\ todo = {}
    /\ clusters' = components
    /\ pc' = "post_process"
    /\ UNCHANGED <<cluster_method, bundle, threshold, err, umis, counts,
                   adj_list, todo, found, components, bfs, pp_todo,
                   new_components, idx, parents, reads, result>>

(***************************************************************************)
(* get_best, lines 117-124: the values the call can return.  The sort is   *)
(* stable and reversed, so among members of equal highest count the one    *)
(* returned is the one the set happens to yield first.                     *)
(***************************************************************************)
\* variant of get_best: the sort not reversed
get_best_lowest(cluster, cnt) ==
    IF Cardinality(cluster) = 1
    THEN cluster
    ELSE {umi \in cluster : \A other \in cluster : cnt[umi] <= cnt[other]}

get_best(cluster, cnt) ==
    IF Cardinality(cluster) = 1
    THEN cluster
    ELSE {umi \in cluster : \A other \in cluster : cnt[umi] >= cnt[other]}

(***************************************************************************)
(* _post_process_components_directional_, lines 65-77                      *)
(***************************************************************************)
\* line 68: positions, in list order, of the components that hold umi
RECURSIVE parent_positions(_, _, _)
parent_positions(comps, umi, i) ==
    IF i > Len(comps)
    THEN <<>>
    ELSE (IF (comps[i] \cap {umi}) # {} THEN <<i>> ELSE <<>>)
         \o parent_positions(comps, umi, i + 1)

\* line 72
index_of_rep(cluster_reps) == IndexOf(cluster_reps, StrMax(cluster_reps))

\* line 74: the claiming component i gives the barcode up
GivesUp(i, index_rep) == i # index_rep

\* lines 73-75: parent_clusters[i] is the set object at position pos[i];
\* components.index finds the first component equal to it
RECURSIVE remove_loop(_, _, _, _, _)
remove_loop(comps, pos, index_rep, umi, i) ==
    IF i > Len(pos)
    THEN comps
    ELSE IF GivesUp(i, index_rep)
    THEN LET k == IndexOf(comps, comps[pos[i]]) IN
         remove_loop([comps EXCEPT ![k] = @ \ {umi}], pos, index_rep, umi, i + 1)
    ELSE remove_loop(comps, pos, index_rep, umi, i + 1)

\* variant of MultiplyClaimed: the length compared with 2
MultiplyClaimed_above_two(pos) == Len(pos) > 2

\* line 69
MultiplyClaimed(pos) == Len(pos) > 1

PostProcessDirectionalBegin ==
    /\ pc = "post_process"
    /\ cluster_method = "directional"
    /\ pp_todo' = umis
    /\ pc' = "pp_directional"
    /\ UNCHANGED <<cluster_method, bundle, threshold, err, umis, counts,
                   adj_list, todo, found, components, bfs, clusters,
                   new_components, idx, parents, reads, result>>

\* one iteration of the loop of line 67
PostProcessDirectionalStep ==
    /\ pc = "pp_directional"
    /\ \E umi \in pp_todo :
          LET pos == parent_positions(clusters, umi, 1) IN
          /\ pp_todo' = pp_todo \ {umi}
          /\ IF MultiplyClaimed(pos)
             THEN \E cluster_reps \in [1..Len(pos) -> umis] :
                     /\ \A i \in 1..Len(pos) :
                           cluster_reps[i] \in get_best(clusters[pos[i]], counts)
                     /\ clusters' = remove_loop(clusters, pos,
                                                index_of_rep(cluster_reps), umi, 1)
             ELSE clusters' = clusters
    /\ UNCHANGED <<cluster_method, bundle, threshold, pc, err, umis, counts,
                   adj_list, todo, found, components, bfs, new_components,
                   idx, parents, reads, result>>

\* line 77 and the assignment of line 165
PostProcessDirectionalReturn ==
    /\ pc = "pp_directional"
    /\ pp_todo = {}
    /\ pc' = "reduce_clusters"
    /\ UNCHANGED <<cluster_method, bundle, threshold, err, umis, counts,
                   adj_list, todo, found, components, bfs, clusters, pp_todo,
                   new_components, idx, parents, reads, result>>

(***************************************************************************)
(* _post_process_components_kmeans_, lines 79-97                           *)
(***************************************************************************)
\* kmeans.find_clusters(adj_list_restricted, counts_restricted, k=1): the
\* secondary pass returns sub-groups of the component, which it either
\* leaves whole or splits; every way of splitting it is a possible return
find_clusters(adj_r, counts_r) ==
    LET members == DOMAIN counts_r IN
    {{g \in {{umi \in members : f[umi] = k} : k \in 1..Cardinality(members)} : g # {}}
        : f \in [members -> 1..Cardinality(members)]}

\* lines 94-95: what the loop over new_clusters appends for one component
appended(cluster, n_new_clusters) == [i \in 1..n_new_clusters |-> cluster]

PostProcessKmeansBegin ==
    /\ pc = "post_process"
    /\ cluster_method = "kmeans"
    /\ new_components' = <<>>
    /\ idx' = 1
    /\ pc' = "pp_kmeans"
    /\ UNCHANGED <<cluster_method, bundle, threshold, err, umis, counts,
                   adj_list, todo, found, components, bfs, clusters, pp_todo,
                   parents, reads, result>>

\* one iteration of the loop of line 83
PostProcessKmeansStep ==
    /\ pc = "pp_kmeans"
    /\ idx <= Len(clusters)
    /\ LET cluster == clusters[idx] IN
          IF Cardinality(cluster) = 1
          THEN new_components' = Append(new_components, cluster)
          ELSE LET counts_restricted == [umi \in cluster |-> counts[umi]]
                   adj_list_restricted == [umi \in cluster |-> adj_list[umi]]
               IN \E new_clusters \in find_clusters(adj_list_restricted,
                                                    counts_restricted) :
                     new_components' = new_components
                                       \o appended(cluster, Cardinality(new_clusters))
    /\ idx' = idx + 1
    /\ UNCHANGED <<cluster_method, bundle, threshold, pc, err, umis, counts,
                   adj_list, todo, found, components, bfs, clusters, pp_todo,
                   parents, reads, result>>

\* line 97 and the assignment of line 165
PostProcessKmeansReturn ==
    /\ pc = "pp_kmeans"
    /\ idx > Len(clusters)
    /\ clusters' = new_components
    /\ pc' = "reduce_clusters"
    /\ UNCHANGED <<cluster_method, bundle, threshold, err, umis, counts,
                   adj_list, todo, found, components, bfs, pp_todo,
                   new_components, idx, parents, reads, result>>

(***************************************************************************)
(* reduce_clusters, lines 126-137, and line 168                            *)
(***************************************************************************)
\* variant of IsReassigned: the filter left out
IsReassigned_always(umi, parent_umi) == TRUE

\* line 135: the filter of the comprehension
IsReassigned(umi, parent_umi) == umi # parent_umi

\* line 135: the pairs one cluster contributes
cluster_pairs(bndl, cluster, parent_umi) ==
    UNION {{<<bndl[umi][k], parent_umi>> : k \in 1..Len(bndl[umi])}
              : umi \in {u \in cluster : IsReassigned(u, parent_umi)}}

\* line 133
NeedsCorrection(cluster) == Cardinality(cluster) > 1

ReduceClustersBegin ==
    /\ pc = "reduce_clusters"
    /\ reads' = EmptyBag
    /\ parents' = <<>>
    /\ idx' = 1
    /\ pc' = "reduce_loop"
    /\ UNCHANGED <<cluster_method, bundle, threshold, err, umis, counts,
                   adj_list, todo, found, components, bfs, clusters, pp_todo,
                   new_components, result>>

\* one iteration of the loop of line 131; parents records parent_umi of
\* the iteration (NoUmi where line 134 is not reached)
ReduceClustersStep ==
    /\ pc = "reduce_loop"
    /\ idx <= Len(clusters)
    /\ LET cluster == clusters[idx] IN
          IF NeedsCorrection(cluster)
          THEN \E parent_umi \in get_best(cluster, counts) :
                  /\ reads' = reads (+) SetToBag(cluster_pairs(bundle, cluster, parent_umi))
                  /\ parents' = Append(parents, parent_umi)
          ELSE /\ reads' = reads
               /\ parents' = Append(parents, NoUmi)
    /\ idx' = idx + 1
    /\ UNCHANGED <<cluster_method, bundle, threshold, pc, err, umis, counts,
                   adj_list, todo, found, components, bfs, clusters, pp_todo,
                   new_components, result>>

\* lines 137 and 166-168
Return ==
    /\ pc = "reduce_loop"
    /\ idx > Len(clusters)
    /\ result' = reads
    /\ pc' = "done"
    /\ UNCHANGED <<cluster_method, bundle, threshold, err, umis, counts,
                   adj_list, todo, found, components, bfs, clusters, pp_todo,
                   new_components, idx, parents, reads>>

Next ==
    \/ Call
    \/ Counts
    \/ GetAdjList
    \/ ComponentsBegin
    \/ ComponentsNext
    \/ BfsStep
    \/ BfsReturn
    \/ ComponentsReturn
    \/ PostProcessDirectionalBegin
    \/ PostProcessDirectionalStep
    \/ PostProcessDirectionalReturn
    \/ PostProcessKmeansBegin
    \/ PostProcessKmeansStep
    \/ PostProcessKmeansReturn
    \/ ReduceClustersBegin
    \/ ReduceClustersStep
    \/ Return

Spec == Init /\ [][Next]_vars

(***************************************************************************)
(* Vocabulary of the properties                                            *)
(***************************************************************************)
\* get_adj_list has returned
AdjBuilt == pc \notin {"call", "raised", "counts", "adj"}

\* get_connected_components has just returned
ComponentsFound == pc = "post_process"

\* post_process_components has returned
PostProcessed == pc \in {"reduce_clusters", "reduce_loop", "done"}

\* positions of the lists that hold a barcode
Claiming(umi) == {i \in 1..Len(components) : umi \in components[i]}
Holding(umi) == {i \in 1..Len(clusters) : umi \in clusters[i]}

PairwiseDisjoint(seq) ==
    \A i, j \in 1..Len(seq) : i # j => seq[i] \cap seq[j] = {}

Distance(a, b) == hamming(encode(a), encode(b))

UniformLength == Cardinality({Len(u) : u \in DOMAIN bundle}) = 1

RECURSIVE TotalReads(_)
TotalReads(S) ==
    IF S = {} THEN 0
    ELSE LET u == CHOOSE x \in S : TRUE IN Len(bundle[u]) + TotalReads(S \ {u})

\* highest count among the members of a set of barcodes
TopCount(S) == SetMax({counts[u] : u \in S})

\* the pairs of the returned list that reassign a read
PairsOf(read) == {p \in BagToSet(result) : p[1] = read}

(***************************************************************************)
(* C1: under "directional", once post-processing has returned, every       *)
(* barcode of the bundle is in exactly one cluster and no cluster is       *)
(* empty.                                                                  *)
(***************************************************************************)
C1_PartitionComplete ==
    (cluster_method = "directional" /\ PostProcessed) =>
        /\ \A umi \in umis : Cardinality(Holding(umi)) = 1
        /\ \A i \in 1..Len(clusters) : clusters[i] # {}

\* a barcode that two components claimed has been reconciled
C1_Witness ==
    /\ cluster_method = "directional"
    /\ PostProcessed
    /\ \E umi \in umis : Cardinality(Claiming(umi)) >= 2

(***************************************************************************)
(* C2: under "directional", a barcode claimed by several components ends   *)
(* only in the claiming component whose representative has the highest     *)
(* count, when that highest count is unique.                               *)
(***************************************************************************)
C2_HighestCountWins ==
    (cluster_method = "directional" /\ PostProcessed) =>
        \A umi \in umis :
            \A w \in Claiming(umi) :
                (\A j \in Claiming(umi) \ {w} :
                    TopCount(components[w]) > TopCount(components[j]))
                => (Cardinality(Claiming(umi)) >= 2 => Holding(umi) = {w})

(***************************************************************************)
(* C3: the returned reassignments do not depend on iteration order: the    *)
(* representative of a cluster is its member of highest count and, among   *)
(* members that tie, the first in lexicographic order.                     *)
(***************************************************************************)
LexBest(cluster) ==
    CHOOSE umi \in cluster :
        \A other \in cluster \ {umi} :
            \/ counts[umi] > counts[other]
            \/ counts[umi] = counts[other] /\ StrLess(umi, other)

C3_Deterministic ==
    pc = "done" =>
        BagToSet(result) =
            UNION {cluster_pairs(bundle, clusters[i], LexBest(clusters[i]))
                      : i \in {j \in 1..Len(clusters) : Cardinality(clusters[j]) > 1}}

(***************************************************************************)
(* C4: under "directional", the returned list holds exactly one pair for   *)
(* every read of a barcode that is not the representative of its cluster   *)
(* of two or more barcodes, mapping it to that representative, and no pair *)
(* for any other read; no pair maps a read to its own barcode, and the     *)
(* number of pairs is the number of reads minus the reads filed under the  *)
(* representatives.                                                        *)
(***************************************************************************)
\* the representative of the cluster at position i: the parent_umi that
\* reduce_clusters computed, the only member of a singleton
RepOf(i) ==
    IF parents[i] # NoUmi THEN parents[i] ELSE CHOOSE umi \in clusters[i] : TRUE

C4_ReassignmentsExact ==
    (cluster_method = "directional" /\ pc = "done") =>
        /\ \A umi \in umis :
              \A k \in 1..Len(bundle[umi]) :
                  LET read == bundle[umi][k]
                      i == CHOOSE j \in 1..Len(clusters) : umi \in clusters[j]
                  IN IF Cardinality(clusters[i]) > 1 /\ umi # RepOf(i)
                     THEN /\ PairsOf(read) = {<<read, RepOf(i)>>}
                          /\ CopiesIn(<<read, RepOf(i)>>, result) = 1
                     ELSE PairsOf(read) = {}
        /\ \A p \in BagToSet(result) : p[1][1] \in umis /\ p[1][1] # p[2]
        /\ BagCardinality(result) =
              TotalReads(umis) - TotalReads({RepOf(i) : i \in 1..Len(clusters)})

\* the shape of the example: one barcode corrected to its neighbour, a
\* third barcode on its own
C4_Witness ==
    /\ cluster_method = "directional"
    /\ pc = "done"
    /\ Len(clusters) = 2
    /\ Cardinality(umis) = 3
    /\ BagCardinality(result) = 1

(***************************************************************************)
(* C5: get_best returns a member of the cluster whose count is at least    *)
(* the count of every member (the only member of a singleton), so in every *)
(* returned pair the representative's count is at least the count of the   *)
(* read's own barcode.                                                     *)
(***************************************************************************)
C5_RepresentativeDominance ==
    /\ AdjBuilt =>
          \A cluster \in SUBSET umis \ {{}} :
              /\ get_best(cluster, counts) # {}
              /\ \A best \in get_best(cluster, counts) :
                    /\ best \in cluster
                    /\ \A umi \in cluster : counts[best] >= counts[umi]
    /\ \A i \in 1..Len(parents) :
          parents[i] # NoUmi =>
              /\ parents[i] \in clusters[i]
              /\ \A umi \in clusters[i] : counts[parents[i]] >= counts[umi]
    /\ pc = "done" =>
          \A p \in BagToSet(result) : counts[p[2]] >= counts[p[1][1]]

\* a cluster of three barcodes has been collapsed onto its representative
C5_Witness ==
    /\ pc = "done"
    /\ \E i \in 1..Len(parents) :
          /\ parents[i] # NoUmi
          /\ Cardinality(clusters[i]) >= 3
          /\ \E umi \in clusters[i] : counts[umi] < counts[parents[i]]
    /\ result # EmptyBag

(***************************************************************************)
(* C6: under either policy, when no two distinct barcodes of the bundle    *)
(* are at hamming distance exactly threshold, the returned list is empty.  *)
(***************************************************************************)
NoPairAtThreshold ==
    \A a, b \in umis : a # b => Distance(a, b) # threshold

C7_LengthMismatchFails ==
    LET lens == {Len(u) : u \in DOMAIN bundle} IN
    Cardinality(lens) > 1 =>
        /\ pc \in {"call", "raised"}
        /\ pc = "raised" =>
              /\ err.type = "AssertionError"
              /\ \E lo, hi \in lens :
                    /\ \A l \in lens : lo <= l /\ l <= hi
                    /\ err.args = <<lo, hi>>
        /\ counts = <<>>
        /\ adj_list = <<>>
        /\ components = <<>>
        /\ clusters = <<>>
        /\ result = EmptyBag

C7_Witness ==
    /\ pc = "raised"
    /\ err.type = "AssertionError"
    /\ Cardinality(DOMAIN bundle) >= 2

(***************************************************************************)
(* C8: under "kmeans", whatever number of sub-groups the secondary pass    *)
(* returns, the clusters after post-processing partition the barcodes of   *)
(* the bundle and no read is reassigned more than once.                    *)
(***************************************************************************)
C8_KmeansRefinementPartitions ==
    (cluster_method = "kmeans" /\ PostProcessed) =>
        /\ \A umi \in umis : Cardinality(Holding(umi)) = 1
        /\ pc = "done" =>
              \A p \in BagToSet(result) : CopiesIn(p, result) = 1

(***************************************************************************)
(* C9 as stated: under either policy the components returned by            *)
(* get_connected_components are pairwise disjoint and their union is the   *)
(* key set of the bundle.                                                  *)
(***************************************************************************)
C9_DisjointCover ==
    ComponentsFound =>
        /\ PairwiseDisjoint(components)
        /\ UNION {components[i] : i \in 1..Len(components)} = umis

(***************************************************************************)
(* C9 as amended: under either policy the union of the components is the   *)
(* key set of the bundle and every component holds a barcode that no other *)
(* component holds; under "kmeans" the components are pairwise disjoint.   *)
(***************************************************************************)
C9_CoverAndKmeansDisjoint ==
    ComponentsFound =>
        /\ UNION {components[i] : i \in 1..Len(components)} = umis
        /\ \A i \in 1..Len(components) :
              \E umi \in components[i] : Claiming(umi) = {i}
        /\ cluster_method = "kmeans" => PairwiseDisjoint(components)

\* several traversals, one of which collected more than its seed
C9_Witness ==
    /\ ComponentsFound
    /\ cluster_method = "kmeans"
    /\ Len(components) >= 2
    /\ \E i \in 1..Len(components) : Cardinality(components[i]) >= 2

(***************************************************************************)
(* C10 as stated: the graph has one entry per barcode; B2 is adjacent to B *)
(* iff B2 differs from B, their hamming distance is threshold and, under   *)
(* "directional", count(B) >= 2*count(B2) - 1; no barcode is adjacent to   *)
(* itself.                                                                 *)
(***************************************************************************)
Related(b, b2) ==
    /\ Distance(b, b2) = threshold
    /\ cluster_method = "directional" => counts[b] >= 2 * counts[b2] - 1

====
